---- MODULE Spec2Model ----
(***************************************************************************)
(* Model of the greedy lab-session scheduler (scheduler.py): the RA        *)
(* resource, the hard-constraint checker can_assign, assign, and the       *)
(* two-pass schedule_greedy (score once against the initial state, commit  *)
(* against the live counters), and the reporting and read-only methods.    *)
(***************************************************************************)
EXTENDS Integers, Sequences, FiniteSets, TLC

(***************************************************************************)
(* Program constants.                                                      *)
(***************************************************************************)
NumDays == 5
NumSlots == 6
DailyLimit == 2
total_slots == 28

Days == 0 .. (NumDays - 1)
Slots == 0 .. (NumSlots - 1)

(***************************************************************************)
(* Bounds of the model.                                                    *)
(***************************************************************************)
MaxRAs == 3

(***************************************************************************)
(* Optional arguments: <<>> is None, <<v>> is the value v.                 *)
(***************************************************************************)
None == << >>
Some(v) == << v >>

(***************************************************************************)
(* Grids: a numpy integer array of a given shape.                          *)
(***************************************************************************)
Cells(r, c) == (0 .. (r - 1)) \X (0 .. (c - 1))

Grid(r, c, on) ==
    [rows |-> r, cols |-> c,
     cell |-> [p \in Cells(r, c) |-> IF p \in on THEN 1 ELSE 0]]

np_ones(r, c) == Grid(r, c, Cells(r, c))

RECURSIVE SumOver(_, _)
SumOver(f, S) ==
    IF S = {} THEN 0
    ELSE LET x == CHOOSE y \in S : TRUE
         IN  f[x] + SumOver(f, S \ {x})

np_sum(a) == SumOver(a.cell, DOMAIN a.cell)

InRange(a, day, slot) == day < a.rows /\ slot < a.cols

(***************************************************************************)
(* RA.__init__                                                             *)
(***************************************************************************)
RA_array(availability) ==
    IF availability = None THEN np_ones(NumDays, NumSlots) ELSE availability[1]

\* The two item assignments of the hard constraint raise IndexError when the
\* array has no cell [3, 2] or [3, 3].
RA_raises(availability) ==
    LET a == RA_array(availability)
    IN  ~ (InRange(a, 3, 2) /\ InRange(a, 3, 3))

\* Mutant of RA_blackout: only Thursday slot 2 is cleared.
RA_blackout_slot2_only(a) ==
    [a EXCEPT !.cell = [@ EXCEPT ![<<3, 2>>] = 0]]

RA_blackout(a) ==
    [a EXCEPT !.cell = [@ EXCEPT ![<<3, 2>>] = 0, ![<<3, 3>>] = 0]]

RA(name, availability, max_slots_per_week) ==
    LET a == RA_blackout(RA_array(availability))
    IN  [name |-> name,
         availability |-> a,
         max_slots_per_week |->
             IF max_slots_per_week # None THEN max_slots_per_week[1]
             ELSE np_sum(a)]

(***************************************************************************)
(* Inputs: the caller's resource specifications, one record of __init__    *)
(* arguments per RA.                                                       *)
(***************************************************************************)
Names == << "r1", "r2", "r3", "r4", "r5" >>

FocusCells == { <<0, 1>>, <<0, 2>>, <<0, 4>> }

\* 5x6 grids with at least 2 of the focus cells available.
SparseGrids ==
    { Some(Grid(NumDays, NumSlots, on)) :
          on \in { x \in SUBSET FocusCells : Cardinality(x) >= 2 } }

FullGrids == { None, Some(np_ones(NumDays, NumSlots)) }

\* A 5x6 grid with the blackout cells supplied as 1, and arrays of other shapes.
OddGrids ==
    { Some(Grid(NumDays, NumSlots, { <<3, 2>>, <<3, 3>>, <<3, 4>> })),
      Some(np_ones(4, 4)), Some(np_ones(3, 6)), Some(np_ones(6, 7)) }

SmallCaps == { None, Some(1) }

FullCaps == { None, Some(1), Some(2), Some(total_slots) }

OddCaps == { None, Some(-1), Some(0), Some(1) }

Arg(n, g, c) == [name |-> n, availability |-> g, max_slots_per_week |-> c]

Over(a, grids, caps) ==
    \A j \in 1 .. Len(a) :
        a[j].availability \in grids /\ a[j].max_slots_per_week \in caps

UniqueNames(a) == \A j \in 1 .. Len(a) : a[j].name = Names[j]

\* Up to MaxRAs resources with unique names over sparse grids and small caps.
GenericInputs(a) ==
    Len(a) <= MaxRAs /\ UniqueNames(a) /\ Over(a, SparseGrids, SmallCaps)

\* Up to two resources over full grids (Scenarios A and B among them).
FullInputs(a) ==
    Len(a) <= 2 /\ UniqueNames(a) /\ Over(a, FullGrids, FullCaps)

\* Two resources sharing one name.
DupInputs(a) ==
    /\ Len(a) <= 2
    /\ \A j \in 1 .. Len(a) : a[j].name = Names[1]
    /\ Over(a, SparseGrids, SmallCaps)

\* Malformed arguments: other shapes, non-positive caps.
OddInputs(a) ==
    Len(a) <= 2 /\ UniqueNames(a) /\ Over(a, OddGrids \cup FullGrids, OddCaps)

Inputs(a) == GenericInputs(a) \/ FullInputs(a) \/ DupInputs(a) \/ OddInputs(a)

AllNames == { Names[j] : j \in 1 .. (MaxRAs + 1) }
AllGrids == SparseGrids \cup FullGrids \cup OddGrids
AllCaps == SmallCaps \cup FullCaps \cup OddCaps

(***************************************************************************)
(* State.                                                                  *)
(***************************************************************************)
VARIABLES
    args,       \* the caller's RA(...) argument records, in order
    ras,        \* the RA objects constructed so far (GreedyScheduler.ras)
    schedule,   \* GreedyScheduler.schedule: (day, slot) -> list of RA names
    ra_stats,   \* GreedyScheduler.ra_stats: name -> weekly, daily, slots
    slots,      \* schedule_greedy's local list of (day, slot, criticality)
    i,          \* position of the assignment loop in slots
    available,  \* schedule_greedy's local list of RAs (positions in ras)
    out,        \* what the last reporting or read call returned or printed
    pc          \* where the program is

vars == << args, ras, schedule, ra_stats, slots, i, available, out, pc >>

EmptyDict == [k \in {} |-> 0]

NoOut == [op |-> "none", val |-> 0]

Init ==
    /\ args = << >>
    /\ ras = << >>
    /\ schedule = EmptyDict
    /\ ra_stats = EmptyDict
    /\ slots = << >>
    /\ i = 0
    /\ available = << >>
    /\ out = NoOut
    /\ pc = "build"

\* ras.append(RA(name, availability, max_slots_per_week)) with arguments of
\* the caller's choice; an IndexError in __init__ ends the program.
NewRA ==
    /\ pc = "build"
    /\ \E n \in AllNames, g \in AllGrids, c \in AllCaps :
          /\ Inputs(Append(args, Arg(n, g, c)))
          /\ args' = Append(args, Arg(n, g, c))
          /\ IF RA_raises(g)
             THEN pc' = "error" /\ ras' = ras
             ELSE pc' = "build" /\ ras' = Append(ras, RA(n, g, c))
    /\ UNCHANGED << schedule, ra_stats, slots, i, available, out >>

(***************************************************************************)
(* GreedyScheduler.__init__                                                *)
(***************************************************************************)
RANames == { ras[j].name : j \in 1 .. Len(ras) }

NewStats == [weekly |-> 0, daily |-> [d \in Days |-> 0], slots |-> << >>]

NewScheduler ==
    /\ pc = "build"
    /\ schedule' = EmptyDict
    /\ ra_stats' = [n \in RANames |-> NewStats]
    /\ pc' = "ready"
    /\ UNCHANGED << args, ras, slots, i, available, out >>

(***************************************************************************)
(* can_assign, get_available_ras                                           *)
(***************************************************************************)
\* Mutants of can_assign: no weekly limit; no daily limit; a weekly limit that
\* lets one slot too many through; no availability check.
can_assign_no_weekly(ra, day, slot) ==
    IF ra.availability.cell[<<day, slot>>] # 1 THEN FALSE
    ELSE IF ra_stats[ra.name].daily[day] >= DailyLimit THEN FALSE
    ELSE TRUE

can_assign_no_daily(ra, day, slot) ==
    IF ra.availability.cell[<<day, slot>>] # 1 THEN FALSE
    ELSE IF ra_stats[ra.name].weekly >= ra.max_slots_per_week THEN FALSE
    ELSE TRUE

can_assign_weekly_gt(ra, day, slot) ==
    IF ra.availability.cell[<<day, slot>>] # 1 THEN FALSE
    ELSE IF ra_stats[ra.name].weekly > ra.max_slots_per_week THEN FALSE
    ELSE IF ra_stats[ra.name].daily[day] >= DailyLimit THEN FALSE
    ELSE TRUE

can_assign_no_availability(ra, day, slot) ==
    IF ra_stats[ra.name].weekly >= ra.max_slots_per_week THEN FALSE
    ELSE IF ra_stats[ra.name].daily[day] >= DailyLimit THEN FALSE
    ELSE TRUE

can_assign(ra, day, slot) ==
    IF ra.availability.cell[<<day, slot>>] # 1 THEN FALSE
    ELSE IF ra_stats[ra.name].weekly >= ra.max_slots_per_week THEN FALSE
    ELSE IF ra_stats[ra.name].daily[day] >= DailyLimit THEN FALSE
    ELSE TRUE

\* The RAs are named by their positions in ras, in the order of ras.
get_available_ras(day, slot) ==
    SelectSeq([j \in 1 .. Len(ras) |-> j],
              LAMBDA j : can_assign(ras[j], day, slot))

(***************************************************************************)
(* Criticality: the sum of 1.0 / max_slots_per_week, kept as an exact      *)
(* fraction <<numerator, denominator>> with a positive denominator.  The   *)
(* program adds doubles, left to right.  For a list of up to 3 RAs the     *)
(* doubles of any two sublists compare as the exact sums do (the same      *)
(* terms are added in the same order, or the sums differ by a whole term). *)
(* From 4 RAs on, doubles can tell apart two sums that are equal as        *)
(* fractions: with caps 1, 1, 3, 1 the program computes 1 + 1 + 1/3 and    *)
(* 1 + 1/3 + 1 as two different doubles.                                   *)
(***************************************************************************)
FracAdd(a, b) == << a[1] * b[2] + b[1] * a[2], a[2] * b[2] >>

Reciprocal(n) == IF n > 0 THEN << 1, n >> ELSE << -1, -n >>

FracLess(a, b) == a[1] * b[2] < b[1] * a[2]

FracEq(a, b) == a[1] * b[2] = b[1] * a[2]

RECURSIVE criticality(_)
criticality(avail) ==
    IF avail = << >> THEN << 0, 1 >>
    ELSE FracAdd(criticality(SubSeq(avail, 1, Len(avail) - 1)),
                 Reciprocal(ras[avail[Len(avail)]].max_slots_per_week))

(***************************************************************************)
(* assign                                                                  *)
(***************************************************************************)
\* Mutant of assign_schedule: the entry is overwritten, not appended to.
assign_schedule_overwrite(ra, day, slot) ==
    schedule @@ (<< day, slot >> :> << ra.name >>)

assign_schedule(ra, day, slot) ==
    LET key == << day, slot >>
        s0 == IF key \in DOMAIN schedule THEN schedule
              ELSE schedule @@ (key :> << >>)
    IN  [s0 EXCEPT ![key] = Append(@, ra.name)]

\* Mutant of assign_stats: the daily counter is not incremented.
assign_stats_no_daily(ra, day, slot) ==
    [ra_stats EXCEPT ![ra.name] =
        [weekly |-> @.weekly + 1,
         daily |-> @.daily,
         slots |-> Append(@.slots, << day, slot >>)]]

\* Mutant of assign_stats: the counters of the other days are reset.
assign_stats_reset_other_days(ra, day, slot) ==
    [ra_stats EXCEPT ![ra.name] =
        [weekly |-> @.weekly + 1,
         daily |-> [d \in Days |-> IF d = day THEN @.daily[d] + 1 ELSE 0],
         slots |-> Append(@.slots, << day, slot >>)]]

assign_stats(ra, day, slot) ==
    [ra_stats EXCEPT ![ra.name] =
        [weekly |-> @.weekly + 1,
         daily |-> [@.daily EXCEPT ![day] = @ + 1],
         slots |-> Append(@.slots, << day, slot >>)]]

(***************************************************************************)
(* schedule_greedy, Step 1: the candidate slots with their criticality,    *)
(* against the counters as they are (all zero on a fresh scheduler).       *)
(***************************************************************************)
\* ra.availability[day, slot] raises IndexError outside the array.
scan_raises_IndexError ==
    \E j \in 1 .. Len(ras), day \in Days, slot \in Slots :
        ~ InRange(ras[j].availability, day, slot)

\* 1.0 / ra.max_slots_per_week raises ZeroDivisionError for a cap of 0.
scan_raises_ZeroDivision ==
    \E day \in Days, slot \in Slots :
        LET av == get_available_ras(day, slot)
        IN  /\ Len(av) >= 2
            /\ \E k \in 1 .. Len(av) : ras[av[k]].max_slots_per_week = 0

\* The candidates among the first k cells in the order of the two loops.
RECURSIVE scan(_)
scan(k) ==
    IF k = 0 THEN << >>
    ELSE LET day == (k - 1) \div NumSlots
             slot == (k - 1) % NumSlots
             av == get_available_ras(day, slot)
         IN  IF Len(av) >= 2
             THEN Append(scan(k - 1), << day, slot, criticality(av) >>)
             ELSE scan(k - 1)

Discover ==
    /\ pc = "ready"
    /\ IF scan_raises_IndexError \/ scan_raises_ZeroDivision
       THEN /\ pc' = "error"
            /\ slots' = slots
       ELSE /\ pc' = "sort"
            /\ slots' = scan(NumDays * NumSlots)
    /\ out' = NoOut
    /\ UNCHANGED << args, ras, schedule, ra_stats, i, available >>

(***************************************************************************)
(* Step 2: slots.sort(key=lambda x: x[2], reverse=True), a stable sort.    *)
(***************************************************************************)
RECURSIVE insert(_, _)
insert(sorted, x) ==
    IF sorted = << >> THEN << x >>
    ELSE IF FracLess(Head(sorted)[3], x[3]) THEN << x >> \o sorted
    ELSE << Head(sorted) >> \o insert(Tail(sorted), x)

\* Mutant of sort: an ascending stable sort, then reversed, which also
\* reverses the order of equal keys.
RECURSIVE insert_ascending(_, _)
insert_ascending(sorted, x) ==
    IF sorted = << >> THEN << x >>
    ELSE IF FracLess(x[3], Head(sorted)[3]) THEN << x >> \o sorted
    ELSE << Head(sorted) >> \o insert_ascending(Tail(sorted), x)

RECURSIVE sort_ascending(_)
sort_ascending(s) ==
    IF s = << >> THEN << >>
    ELSE insert_ascending(sort_ascending(SubSeq(s, 1, Len(s) - 1)), s[Len(s)])

sort_then_reverse(s) ==
    LET a == sort_ascending(s)
    IN  [k \in 1 .. Len(a) |-> a[Len(a) + 1 - k]]

RECURSIVE sort(_)
sort(s) ==
    IF s = << >> THEN << >>
    ELSE insert(sort(SubSeq(s, 1, Len(s) - 1)), s[Len(s)])

Sort ==
    /\ pc = "sort"
    /\ slots' = sort(slots)
    /\ i' = 1
    /\ pc' = "loop"
    /\ UNCHANGED << args, ras, schedule, ra_stats, available, out >>

(***************************************************************************)
(* Step 3: the assignment loop over the sorted candidates.                 *)
(***************************************************************************)
\* Mutant of NextSlot: the eligibility found at discovery is used again, that
\* is availability and a positive cap, without the counters.
NextSlot_stale ==
    /\ pc = "loop"
    /\ i <= Len(slots)
    /\ LET av == SelectSeq([j \in 1 .. Len(ras) |-> j],
                           LAMBDA j :
                               /\ ras[j].availability.cell[<< slots[i][1], slots[i][2] >>] = 1
                               /\ ras[j].max_slots_per_week > 0)
       IN  /\ available' = av
           /\ IF Len(av) >= 2
              THEN pc' = "assign0" /\ i' = i
              ELSE pc' = "loop" /\ i' = i + 1
    /\ UNCHANGED << args, ras, schedule, ra_stats, slots, out >>

NextSlot ==
    /\ pc = "loop"
    /\ i <= Len(slots)
    /\ LET av == get_available_ras(slots[i][1], slots[i][2])
       IN  /\ available' = av
           /\ IF Len(av) >= 2
              THEN pc' = "assign0" /\ i' = i
              ELSE pc' = "loop" /\ i' = i + 1
    /\ UNCHANGED << args, ras, schedule, ra_stats, slots, out >>

AssignFirst ==
    /\ pc = "assign0"
    /\ schedule' = assign_schedule(ras[available[1]], slots[i][1], slots[i][2])
    /\ ra_stats' = assign_stats(ras[available[1]], slots[i][1], slots[i][2])
    /\ pc' = "assign1"
    /\ UNCHANGED << args, ras, slots, i, available, out >>

AssignSecond ==
    /\ pc = "assign1"
    /\ schedule' = assign_schedule(ras[available[2]], slots[i][1], slots[i][2])
    /\ ra_stats' = assign_stats(ras[available[2]], slots[i][1], slots[i][2])
    /\ pc' = "loop"
    /\ i' = i + 1
    /\ UNCHANGED << args, ras, slots, available, out >>

Return ==
    /\ pc = "loop"
    /\ i > Len(slots)
    /\ pc' = "done"
    /\ UNCHANGED << args, ras, schedule, ra_stats, slots, i, available, out >>

(***************************************************************************)
(* get_statistics                                                          *)
(***************************************************************************)
covered == Cardinality(DOMAIN schedule)

\* Mutant of available_count: the RAs that can still be assigned are counted.
available_count_eligible(day, slot) == Len(get_available_ras(day, slot))

available_count(day, slot) ==
    Cardinality({ j \in 1 .. Len(ras) : ras[j].availability.cell[<< day, slot >>] = 1 })

\* Mutant of impossible: a cell with exactly 2 available RAs counts too.
impossible_at_most_2 ==
    Cardinality({ p \in Days \X Slots :
                    /\ ~ (p[1] = 3 /\ p[2] \in { 2, 3 })
                    /\ available_count(p[1], p[2]) <= 2 })

impossible ==
    Cardinality({ p \in Days \X Slots :
                    /\ ~ (p[1] = 3 /\ p[2] \in { 2, 3 })
                    /\ available_count(p[1], p[2]) < 2 })

theoretical_max == total_slots - impossible

\* covered / theoretical_max * 100 as an exact fraction, or 0.
efficiency ==
    IF theoretical_max > 0 THEN << covered * 100, theoretical_max >>
    ELSE << 0, 1 >>

\* get_statistics reads ra.availability[day, slot] of every RA and raises
\* IndexError as Step 1 does; it can be called before and after planning.
GetStatistics ==
    /\ pc \in { "ready", "done" }
    /\ IF scan_raises_IndexError
       THEN pc' = "error" /\ out' = out
       ELSE /\ pc' = pc
            /\ out' = [op |-> "get_statistics",
                       val |-> [covered |-> covered,
                                total_slots |-> total_slots,
                                impossible |-> impossible,
                                theoretical_max |-> theoretical_max,
                                efficiency |-> efficiency]]
    /\ UNCHANGED << args, ras, schedule, ra_stats, slots, i, available >>

(***************************************************************************)
(* print_schedule, print_workload                                          *)
(***************************************************************************)
\* Mutant of total_sessions: a session needs more than 2 names.
total_sessions_more_than_2 ==
    Cardinality({ key \in Days \X Slots :
                    key \in DOMAIN schedule /\ Len(schedule[key]) > 2 })

\* The number print_schedule reports as "Total sessions covered".
total_sessions ==
    Cardinality({ key \in Days \X Slots :
                    key \in DOMAIN schedule /\ Len(schedule[key]) >= 2 })

PrintSchedule ==
    /\ pc = "done"
    /\ out' = [op |-> "print_schedule", val |-> total_sessions]
    /\ UNCHANGED << args, ras, schedule, ra_stats, slots, i, available, pc >>

workload ==
    [j \in 1 .. Len(ras) |->
        [name |-> ras[j].name,
         weekly |-> ra_stats[ras[j].name].weekly,
         limit |-> ras[j].max_slots_per_week,
         daily |-> ra_stats[ras[j].name].daily]]

PrintWorkload ==
    /\ pc = "done"
    /\ out' = [op |-> "print_workload", val |-> workload]
    /\ UNCHANGED << args, ras, schedule, ra_stats, slots, i, available, pc >>

(***************************************************************************)
(* calculate_gaps                                                          *)
(***************************************************************************)
\* The order of the key (x[0], x[1]).
slot_less(a, b) == a[1] < b[1] \/ (a[1] = b[1] /\ a[2] < b[2])

RECURSIVE insert_slot(_, _)
insert_slot(sorted, x) ==
    IF sorted = << >> THEN << x >>
    ELSE IF slot_less(x, Head(sorted)) THEN << x >> \o sorted
    ELSE << Head(sorted) >> \o insert_slot(Tail(sorted), x)

\* Mutant of sorted_slots: the slots are taken in the order of assignment.
sorted_slots_as_assigned(s) == s

\* sorted(stats['slots'], key=lambda x: (x[0], x[1])): a sorted copy.
RECURSIVE sorted_slots(_)
sorted_slots(s) ==
    IF s = << >> THEN << >>
    ELSE insert_slot(sorted_slots(SubSeq(s, 1, Len(s) - 1)), s[Len(s)])

\* The loop over range(1, len(sorted_slots)), up to position n.
RECURSIVE gap_count(_, _)
gap_count(ss, n) ==
    IF n <= 1 THEN 0
    ELSE gap_count(ss, n - 1) +
         (IF ss[n][1] = ss[n - 1][1] /\ ss[n][2] - ss[n - 1][2] - 1 > 0
          THEN ss[n][2] - ss[n - 1][2] - 1
          ELSE 0)

\* The dict returned: an entry for every RA with at least one slot.
gaps ==
    [n \in { m \in RANames : Len(ra_stats[m].slots) # 0 } |->
        LET ss == sorted_slots(ra_stats[n].slots)
        IN  gap_count(ss, Len(ss))]

\* Mutant of CalculateGaps: stats['slots'].sort(...) sorts the list in place.
CalculateGaps_in_place ==
    /\ pc = "done"
    /\ out' = [op |-> "calculate_gaps", val |-> gaps]
    /\ ra_stats' = [n \in DOMAIN ra_stats |->
                       [ra_stats[n] EXCEPT !.slots = sorted_slots(@)]]
    /\ UNCHANGED << args, ras, schedule, slots, i, available, pc >>

CalculateGaps ==
    /\ pc = "done"
    /\ out' = [op |-> "calculate_gaps", val |-> gaps]
    /\ ra_stats' = ra_stats
    /\ UNCHANGED << args, ras, schedule, slots, i, available, pc >>

(***************************************************************************)
(* can_assign and get_available_ras called by the user of the scheduler.   *)
(***************************************************************************)
\* The cells the user asks about.
QueryCells == FocusCells \cup { << 1, 0 >>, << 3, 2 >> }

CanAssign ==
    /\ pc = "done"
    /\ \E j \in 1 .. Len(ras), c \in QueryCells :
          out' = [op |-> "can_assign", val |-> can_assign(ras[j], c[1], c[2])]
    /\ UNCHANGED << args, ras, schedule, ra_stats, slots, i, available, pc >>

GetAvailableRas ==
    /\ pc = "done"
    /\ \E c \in QueryCells :
          out' = [op |-> "get_available_ras", val |-> get_available_ras(c[1], c[2])]
    /\ UNCHANGED << args, ras, schedule, ra_stats, slots, i, available, pc >>

Next ==
    \/ NewRA
    \/ NewScheduler
    \/ Discover
    \/ Sort
    \/ NextSlot
    \/ AssignFirst
    \/ AssignSecond
    \/ Return
    \/ GetStatistics
    \/ PrintSchedule
    \/ PrintWorkload
    \/ CalculateGaps
    \/ CanAssign
    \/ GetAvailableRas

Spec == Init /\ [][Next]_vars

(***************************************************************************)
(* Properties.                                                             *)
(***************************************************************************)
\* The scheduler exists and schedule_greedy has not raised.
Started == pc \in { "ready", "sort", "loop", "assign0", "assign1", "done" }

\* schedule_greedy is in or past its assignment loop.
Sorted == pc \in { "loop", "assign0", "assign1", "done" }

UniqueIds == \A j, k \in 1 .. Len(ras) : ras[j].name = ras[k].name => j = k

PositiveCaps == \A j \in 1 .. Len(ras) : ras[j].max_slots_per_week > 0

Stats(j) == ra_stats[ras[j].name]

Avail(j, day, slot) ==
    /\ InRange(ras[j].availability, day, slot)
    /\ ras[j].availability.cell[<< day, slot >>] = 1

Candidate(day, slot) ==
    \E k \in 1 .. Len(slots) : slots[k][1] = day /\ slots[k][2] = slot

\* C1: during and after schedule_greedy on a fresh scheduler whose RAs have
\* unique names and positive weekly caps, no RA's weekly count exceeds its
\* max_slots_per_week.
C1_WeeklyWithinCap ==
    (Started /\ UniqueIds /\ PositiveCaps) =>
        \A j \in 1 .. Len(ras) : Stats(j).weekly <= ras[j].max_slots_per_week

\* C1 witness: the run is over, an RA is at its weekly cap, and a candidate
\* slot it is available in, on a day it could still work, was left uncovered.
C1_Witness ==
    /\ pc = "done" /\ UniqueIds /\ PositiveCaps
    /\ \E j \in 1 .. Len(ras), day \in Days, slot \in Slots :
          /\ Stats(j).weekly = ras[j].max_slots_per_week
          /\ Candidate(day, slot)
          /\ << day, slot >> \notin DOMAIN schedule
          /\ Avail(j, day, slot)
          /\ Stats(j).daily[day] < DailyLimit

\* C2: during and after schedule_greedy on a fresh scheduler whose RAs have
\* unique names, no RA's count for any weekday 0..4 exceeds 2.
C2_DailyWithinLimit ==
    (Started /\ UniqueIds) =>
        \A j \in 1 .. Len(ras), day \in Days : Stats(j).daily[day] <= 2

\* C2 witness: the run is over, an RA has 2 slots on a day and is below its
\* weekly cap, and a candidate slot of that day it is available in was left
\* uncovered.
C2_Witness ==
    /\ pc = "done" /\ UniqueIds
    /\ \E j \in 1 .. Len(ras), day \in Days, slot \in Slots :
          /\ Stats(j).daily[day] = 2
          /\ Stats(j).weekly < ras[j].max_slots_per_week
          /\ Candidate(day, slot)
          /\ << day, slot >> \notin DOMAIN schedule
          /\ Avail(j, day, slot)

\* C3: between the steps of the assignment loop and at its end, every key of
\* schedule holds exactly 2 names.
C3_TwoPerSlot ==
    pc \in { "loop", "done" } =>
        \A key \in DOMAIN schedule : Len(schedule[key]) = 2

\* C3 witness: a slot has just been committed for which more than 2 RAs were
\* available.
C3_Witness ==
    /\ pc = "loop" /\ i > 1
    /\ Len(available) > 2
    /\ << slots[i - 1][1], slots[i - 1][2] >> \in DOMAIN schedule

FullyAvailable(j) ==
    /\ ras[j].availability.rows = NumDays
    /\ ras[j].availability.cols = NumSlots
    /\ \A day \in Days, slot \in Slots :
          (day = 3 /\ slot \in { 2, 3 }) \/ Avail(j, day, slot)

ScenarioB ==
    /\ Len(ras) = 2 /\ UniqueIds
    /\ \A j \in 1 .. 2 : FullyAvailable(j) /\ ras[j].max_slots_per_week = 28

\* C4 as stated: in Scenario B (two RAs available in every non-blackout slot,
\* max_slots_per_week = 28 each) schedule_greedy covers all 28 non-blackout
\* slots: coverage 28, theoretical maximum 28, efficiency 100%.
C4_ScenarioB_AllCovered ==
    (pc = "done" /\ ScenarioB) =>
        /\ covered = 28
        /\ theoretical_max = 28
        /\ FracEq(efficiency, << 100, 1 >>)

\* C4 amended: in Scenario B schedule_greedy covers exactly 10 slots, slots 0
\* and 1 of every weekday, because the daily limit stops both RAs after two
\* slots a day; the theoretical maximum is 28 and the efficiency 10/28 * 100.
C4_ScenarioB_TenCovered ==
    (pc = "done" /\ ScenarioB) =>
        /\ DOMAIN schedule = Days \X { 0, 1 }
        /\ covered = 10
        /\ theoretical_max = 28
        /\ FracEq(efficiency, << 1000, 28 >>)

\* C4 witness: Scenario B has been planned.
C4_Witness == pc = "done" /\ ScenarioB /\ covered > 0

Shared(day, slot) == \A j \in 1 .. Len(ras) : Avail(j, day, slot)

ScenarioC(j) ==
    /\ Len(ras) = 2 /\ UniqueIds
    /\ j \in 1 .. 2
    /\ ras[j].max_slots_per_week = 1
    /\ ras[3 - j].max_slots_per_week >= 1
    /\ \E day \in Days, slot \in Slots : Shared(day, slot)

\* C5: in Scenario C (two RAs with at least one slot both are available in,
\* one with max_slots_per_week = 1, the other with at least 1), after
\* schedule_greedy the cap-1 RA has weekly count 1 and exactly one slot, and
\* that slot is the only one covered.
C5_ScenarioC ==
    \A j \in 1 .. 2 :
        (pc = "done" /\ ScenarioC(j)) =>
            /\ Stats(j).weekly = 1
            /\ Len(Stats(j).slots) = 1
            /\ covered = 1
            /\ DOMAIN schedule = { Stats(j).slots[1] }

\* C5 witness: Scenario C has been planned with a second shared slot, which
\* was skipped, and a partner that could have worked it.
C5_Witness ==
    \E j \in 1 .. 2 :
        /\ pc = "done" /\ ScenarioC(j)
        /\ ras[3 - j].max_slots_per_week > 1
        /\ \E day \in Days, slot \in Slots :
              /\ Shared(day, slot)
              /\ << day, slot >> \notin DOMAIN schedule

\* Eligible against all-zero counters: available, and a weekly cap above 0.
InitiallyEligible(day, slot) ==
    { j \in 1 .. Len(ras) :
        Avail(j, day, slot) /\ ras[j].max_slots_per_week > 0 }

\* C6: a slot with fewer than 2 RAs eligible against the all-zero counters
\* is never a key of schedule, at any point of schedule_greedy; a scheduler
\* with a single RA ends with an empty schedule and coverage 0.
C6_NeverEligibleNeverAssigned ==
    Started =>
        /\ \A key \in DOMAIN schedule :
              Cardinality(InitiallyEligible(key[1], key[2])) >= 2
        /\ (Len(ras) = 1 => (schedule = EmptyDict /\ covered = 0))

\* C6 witness: the run is over, some slot was covered, and some slot with
\* exactly one initially eligible RA was not.
C6_Witness ==
    /\ pc = "done"
    /\ covered > 0
    /\ \E day \in Days, slot \in Slots :
          /\ Cardinality(InitiallyEligible(day, slot)) = 1
          /\ << day, slot >> \notin DOMAIN schedule

Blackout == { << 3, 2 >>, << 3, 3 >> }

\* The value the caller supplied for a cell: 1 everywhere without a grid.
Supplied(j, p) ==
    IF args[j].availability = None THEN 1
    ELSE args[j].availability[1].cell[p]

Is5x6(g) == g = None \/ (g[1].rows = NumDays /\ g[1].cols = NumSlots)

\* C7: every RA constructed with a 5x6 grid or none, and any cap or none,
\* has availability 0 in cells [3, 2] and [3, 3] whatever was supplied there,
\* and in every other cell the supplied value (1 when no grid was supplied).
C7_BlackoutForced ==
    \A j \in 1 .. Len(ras) :
        Is5x6(args[j].availability) =>
            /\ ras[j].availability.rows = NumDays
            /\ ras[j].availability.cols = NumSlots
            /\ \A p \in Days \X Slots :
                  ras[j].availability.cell[p] =
                      IF p \in Blackout THEN 0 ELSE Supplied(j, p)

\* C7 witness: an RA was constructed from a supplied 5x6 grid that has 1 in
\* both blackout cells and both values among its other cells.
C7_Witness ==
    \E j \in 1 .. Len(ras) :
        /\ args[j].availability # None
        /\ Is5x6(args[j].availability)
        /\ \A p \in Blackout : Supplied(j, p) = 1
        /\ \E p, q \in (Days \X Slots) \ Blackout :
              Supplied(j, p) = 1 /\ Supplied(j, q) = 0

\* The criticality of a slot against the all-zero counters: the sum of
\* 1 / max_slots_per_week over the initially eligible RAs among the first n.
RECURSIVE InitialCriticality(_, _, _)
InitialCriticality(day, slot, n) ==
    IF n = 0 THEN << 0, 1 >>
    ELSE IF Avail(n, day, slot) /\ ras[n].max_slots_per_week > 0
    THEN FracAdd(InitialCriticality(day, slot, n - 1),
                 << 1, ras[n].max_slots_per_week >>)
    ELSE InitialCriticality(day, slot, n - 1)

\* The place of a cell in the discovery order: day ascending, then slot.
CellIndex(c) == c[1] * NumSlots + c[2]

\* The place of a (day, slot) pair in the sorted candidate list.
Pos(key) ==
    CHOOSE k \in 1 .. Len(slots) : << slots[k][1], slots[k][2] >> = key

\* C8: the candidates are committed in descending order of the criticality
\* computed at discovery, equal criticalities in discovery order (day, then
\* slot, ascending): once sorted, the list carries each candidate's initial
\* criticality and never changes, it is in that order, and every RA's slots
\* were assigned in the order of the list.
C8_CommitOrder ==
    Sorted =>
        /\ \A k \in 1 .. Len(slots) :
              FracEq(slots[k][3],
                     InitialCriticality(slots[k][1], slots[k][2], Len(ras)))
        /\ \A a, b \in 1 .. Len(slots) :
              a < b =>
                  /\ ~ FracLess(slots[a][3], slots[b][3])
                  /\ FracEq(slots[a][3], slots[b][3]) =>
                         CellIndex(slots[a]) < CellIndex(slots[b])
        /\ \A n \in DOMAIN ra_stats :
              \A a, b \in 1 .. Len(ra_stats[n].slots) :
                  a < b => Pos(ra_stats[n].slots[a]) <= Pos(ra_stats[n].slots[b])
        /\ \A key \in DOMAIN schedule :
              Pos(key) <= i /\ (Pos(key) = i => pc \in { "assign1" })

\* C8 witness: the run is over; a candidate discovered later was committed
\* before one discovered earlier, and two candidates of equal criticality
\* were both committed.
C8_Witness ==
    /\ pc = "done"
    /\ \E a, b \in 1 .. Len(slots) :
          /\ a < b
          /\ CellIndex(slots[a]) > CellIndex(slots[b])
          /\ << slots[a][1], slots[a][2] >> \in DOMAIN schedule
          /\ << slots[b][1], slots[b][2] >> \in DOMAIN schedule
    /\ \E a, b \in 1 .. Len(slots) :
          /\ a < b
          /\ FracEq(slots[a][3], slots[b][3])
          /\ << slots[a][1], slots[a][2] >> \in DOMAIN schedule
          /\ << slots[b][1], slots[b][2] >> \in DOMAIN schedule

BadArg(a) ==
    \/ a.max_slots_per_week # None /\ a.max_slots_per_week[1] <= 0
    \/ ~ Is5x6(a.availability)

\* C10: constructing an RA with a weekly cap of 0 or less, or with a grid
\* that is not 5x6, ends in an error and yields no RA, so no such RA is ever
\* handed to the scheduler.
C10_BadArgsRejected ==
    \A j \in 1 .. Len(args) : BadArg(args[j]) => Len(ras) < j

\* The set of slots of a name, whatever the order they were assigned in.
SlotsOf(n) == { ra_stats[n].slots[k] : k \in 1 .. Len(ra_stats[n].slots) }

\* The pairs of slots of one day with no slot of the set between them.
ConsecutivePairs(S) ==
    { p \in S \X S :
        /\ p[1][1] = p[2][1]
        /\ p[1][2] < p[2][2]
        /\ ~ \E c \in S : c[1] = p[1][1] /\ p[1][2] < c[2] /\ c[2] < p[2][2] }

RECURSIVE IdleBetween(_)
IdleBetween(P) ==
    IF P = {} THEN 0
    ELSE LET p == CHOOSE q \in P : TRUE
         IN  (p[2][2] - p[1][2] - 1) + IdleBetween(P \ {p})

\* C11: calculate_gaps returns an entry for exactly the names with at least
\* one slot, and the entry is the number of idle slots between consecutive
\* slots of the same day, whatever the order the slots were assigned in;
\* slots of different days contribute nothing.
C11_GapsCountIdleSlots ==
    out.op = "calculate_gaps" =>
        /\ DOMAIN out.val = { n \in RANames : Len(ra_stats[n].slots) >= 1 }
        /\ \A n \in DOMAIN out.val :
              out.val[n] = IdleBetween(ConsecutivePairs(SlotsOf(n)))

\* C11 witness (Scenario D): calculate_gaps has returned 2 for an RA that was
\* assigned (0, 4) before (0, 1) and nothing between them.
C11_Witness ==
    /\ out.op = "calculate_gaps"
    /\ \E n \in DOMAIN out.val :
          /\ ra_stats[n].slots = << << 0, 4 >>, << 0, 1 >> >>
          /\ out.val[n] = 2

\* C12: after schedule_greedy, the coverage of get_statistics, len(schedule),
\* is the number of (day, slot) keys holding at least 2 names, and it is the
\* number print_schedule reports as sessions covered.
C12_CoverageCountsSessions ==
    pc = "done" =>
        /\ covered =
              Cardinality({ key \in DOMAIN schedule : Len(schedule[key]) >= 2 })
        /\ covered = total_sessions
        /\ out.op = "get_statistics" => out.val.covered = total_sessions
        /\ out.op = "print_schedule" => out.val = covered

\* C12 witness: print_schedule has reported 2 or more sessions, fewer than
\* there were candidates.
C12_Witness ==
    /\ pc = "done"
    /\ out.op = "print_schedule"
    /\ out.val >= 2
    /\ out.val < Len(slots)

\* 28 minus the non-blackout cells in which fewer than 2 of the grids the
\* caller supplied have a 1: a function of the supplied grids alone.
StaticMaximum ==
    28 - Cardinality({ p \in (Days \X Slots) \ Blackout :
                         Cardinality({ j \in 1 .. Len(args) : Supplied(j, p) = 1 }) < 2 })

\* C13: before, during and after schedule_greedy, the theoretical maximum of
\* get_statistics is 28 minus the number of non-blackout cells in which fewer
\* than 2 RAs are available in the grids as supplied, whatever the weekly
\* caps and the counters are, and that is the value get_statistics reports.
C13_TheoreticalMaxStatic ==
    (Started /\ ~ scan_raises_IndexError) =>
        /\ theoretical_max = StaticMaximum
        /\ out.op = "get_statistics" => out.val.theoretical_max = StaticMaximum

\* C13 witness: get_statistics was called after a run that covered a slot
\* and used up an RA's weekly cap, with a cell impossible to cover and a
\* theoretical maximum above the coverage.
C13_Witness ==
    /\ pc = "done"
    /\ out.op = "get_statistics"
    /\ out.val.covered >= 1
    /\ out.val.covered < out.val.theoretical_max
    /\ out.val.theoretical_max < 28
    /\ \E j \in 1 .. Len(ras) : Stats(j).weekly = ras[j].max_slots_per_week

\* A reporting or read call has returned something new.
Reported == out' # out /\ out'.op # "none"

C14_Frame ==
    (pc = "done" \/ Reported) => UNCHANGED << args, ras, schedule, ra_stats >>

\* C14: get_statistics, print_schedule, print_workload, calculate_gaps,
\* can_assign and get_available_ras leave schedule, every RA's weekly and
\* daily counters and slots list (the order of the list included) and every
\* RA's availability grid and cap as they were.
C14_ReportsChangeNothing == [][C14_Frame]_vars

\* C14 witness: calculate_gaps has returned and an RA's slots list is still
\* in the order of assignment, which is not the sorted order.
C14_Witness ==
    /\ out.op = "calculate_gaps"
    /\ \E n \in DOMAIN ra_stats :
          \E k \in 1 .. (Len(ra_stats[n].slots) - 1) :
              slot_less(ra_stats[n].slots[k + 1], ra_stats[n].slots[k])

\* The RAs eligible for a slot against the counters as they are now.
EligibleNow(day, slot) ==
    { j \in 1 .. Len(ras) :
        /\ Avail(j, day, slot)
        /\ Stats(j).weekly < ras[j].max_slots_per_week
        /\ Stats(j).daily[day] < 2 }

\* The two lowest positions of a set of at least 2 positions.
Lowest(E) == CHOOSE a \in E : \A b \in E : a <= b
SecondLowest(E) == Lowest(E \ { Lowest(E) })

\* The candidate the assignment loop is at.
Key == << slots[i][1], slots[i][2] >>

\* One step of the assignment loop at a candidate: the recomputation, then
\* the first and the second assign.
C15_Step ==
    /\ (pc = "loop" /\ i <= Len(slots)) =>
          LET E == EligibleNow(Key[1], Key[2])
          IN  /\ UNCHANGED << schedule, ra_stats >>
              /\ IF Cardinality(E) >= 2
                 THEN /\ pc' = "assign0" /\ i' = i
                      /\ { available'[k] : k \in 1 .. Len(available') } = E
                      /\ \A k \in 1 .. (Len(available') - 1) :
                            available'[k] < available'[k + 1]
                 ELSE pc' = "loop" /\ i' = i + 1
    /\ pc = "assign0" =>
          LET E == EligibleNow(Key[1], Key[2])
          IN  /\ Cardinality(E) >= 2
              /\ Key \notin DOMAIN schedule
              /\ available[1] = Lowest(E) /\ available[2] = SecondLowest(E)
              /\ pc' = "assign1" /\ i' = i /\ available' = available
              /\ DOMAIN schedule' = DOMAIN schedule \cup { Key }
              /\ schedule'[Key] = << ras[available[1]].name >>
    /\ pc = "assign1" =>
          /\ pc' = "loop" /\ i' = i + 1
          /\ DOMAIN schedule' = DOMAIN schedule
          /\ schedule'[Key] =
                << ras[available[1]].name, ras[available[2]].name >>
    /\ pc \in { "assign0", "assign1" } =>
          /\ \A key \in DOMAIN schedule : schedule'[key] = schedule[key] \/ key = Key
          /\ \A n \in DOMAIN ra_stats :
                \/ ra_stats'[n] = ra_stats[n]
                \/ n \in { ras[available[1]].name, ras[available[2]].name }

\* C15: at each candidate of the assignment loop the eligible RAs are
\* recomputed against the counters as they are; with 2 or more, the two of
\* lowest position in ras are assigned to the slot, in that order, and
\* nothing else changes; with fewer, schedule and all counters stay as they
\* are and the loop moves on to the next candidate.
C15_CommitTwoLowestOrSkip == [][C15_Step]_vars

\* C15 witness: a slot has been committed, and the last candidate was skipped
\* with exactly one RA still eligible for it, which was not assigned.
C15_Witness ==
    /\ pc = "loop" /\ i > 1
    /\ schedule # EmptyDict
    /\ << slots[i - 1][1], slots[i - 1][2] >> \notin DOMAIN schedule
    /\ Len(available) = 1
    /\ Cardinality(EligibleNow(slots[i - 1][1], slots[i - 1][2])) = 1

\* C16: from the construction of the scheduler to the end of schedule_greedy,
\* an RA handed to assign is available in the slot, every slot in the slots
\* list of an RA (names being unique) is one the RA is available in, and the
\* blackout cells (3, 2) and (3, 3) are in no slots list and are no keys of
\* schedule.
C16_AssignedOnlyWhereAvailable ==
    Started =>
        /\ pc \in { "assign0", "assign1" } =>
              Avail(available[1], Key[1], Key[2]) /\ Avail(available[2], Key[1], Key[2])
        /\ UniqueIds =>
              \A j \in 1 .. Len(ras) :
                  \A k \in 1 .. Len(Stats(j).slots) :
                      Avail(j, Stats(j).slots[k][1], Stats(j).slots[k][2])
        /\ \A n \in DOMAIN ra_stats : SlotsOf(n) \cap Blackout = {}
        /\ DOMAIN schedule \cap Blackout = {}

\* C16 witness: the run is over; every RA was constructed from a grid with 1
\* in both blackout cells, and a slot of that day was covered.
C16_Witness ==
    /\ pc = "done"
    /\ \A j \in 1 .. Len(ras) :
          /\ args[j].availability # None
          /\ \A p \in Blackout : Supplied(j, p) = 1
    /\ \E key \in DOMAIN schedule : key[1] = 3

\* C17: after schedule_greedy, every covered slot is a non-blackout cell in
\* which at least 2 RAs are available, so the coverage is at most the
\* theoretical maximum, the efficiency is between 0 and 100, and the coverage
\* is 0 when the theoretical maximum is 0.
C17_CoverageWithinMaximum ==
    pc = "done" =>
        /\ \A key \in DOMAIN schedule :
              /\ key \in (Days \X Slots) \ Blackout
              /\ Cardinality({ j \in 1 .. Len(ras) : Avail(j, key[1], key[2]) }) >= 2
        /\ covered <= theoretical_max
        /\ theoretical_max = 0 => covered = 0
        /\ efficiency[2] > 0
        /\ 0 <= efficiency[1] /\ efficiency[1] <= 100 * efficiency[2]
        /\ out.op = "get_statistics" =>
              /\ out.val.covered <= out.val.theoretical_max
              /\ 0 <= out.val.efficiency[1]
              /\ out.val.efficiency[1] <= 100 * out.val.efficiency[2]

\* C17 witness: get_statistics has reported an efficiency strictly between 0
\* and 100 after a run that left uncovered a cell 2 RAs are available in.
C17_Witness ==
    /\ pc = "done"
    /\ out.op = "get_statistics"
    /\ 0 < out.val.efficiency[1]
    /\ out.val.efficiency[1] < 100 * out.val.efficiency[2]
    /\ \E p \in (Days \X Slots) \ DOMAIN schedule : available_count(p[1], p[2]) >= 2

\* An RA that is not eligible for a slot is not eligible after the step.
C18_Step ==
    (Started /\ Started') =>
        \/ UNCHANGED << ras, ra_stats >>
        \/ \A j \in 1 .. Len(ras), day \in Days, slot \in Slots :
              j \notin EligibleNow(day, slot) => j \notin EligibleNow(day, slot)'

\* The candidate the list in available was computed for.
LastKey ==
    IF pc \in { "assign0", "assign1" } THEN Key
    ELSE << slots[i - 1][1], slots[i - 1][2] >>

C18_SubsetAndSkipped ==
    (Sorted /\ i > 1) =>
        /\ \A k \in 1 .. Len(available) :
              available[k] \in InitiallyEligible(LastKey[1], LastKey[2])
        /\ \A k \in 1 .. (Len(available) - 1) : available[k] < available[k + 1]
        /\ \A k \in 1 .. (i - 1) :
              << slots[k][1], slots[k][2] >> \notin DOMAIN schedule =>
                  Cardinality(EligibleNow(slots[k][1], slots[k][2])) < 2

\* C18: eligibility is monotone over a run of schedule_greedy: an RA that is
\* not eligible for a slot in one state is not eligible for it in any later
\* state; the list recomputed at commitment holds, in the order of ras, only
\* RAs that were eligible at discovery; and a candidate that was skipped has
\* fewer than 2 eligible RAs in every later state of the run.
C18_EligibilityMonotone == [][C18_Step]_vars /\ []C18_SubsetAndSkipped

\* C18 witness: the run is over; a candidate was skipped although one of its
\* RAs is still eligible for it, and a later candidate was committed.
C18_Witness ==
    /\ pc = "done"
    /\ \E a, b \in 1 .. Len(slots) :
          /\ a < b
          /\ << slots[a][1], slots[a][2] >> \notin DOMAIN schedule
          /\ EligibleNow(slots[a][1], slots[a][2]) # {}
          /\ << slots[b][1], slots[b][2] >> \in DOMAIN schedule

\* How often x occurs in the list s.
Occurrences(s, x) == Cardinality({ k \in 1 .. Len(s) : s[k] = x })

\* The names under a key of schedule, none when the key is absent.
NamesAt(key) == IF key \in DOMAIN schedule THEN schedule[key] ELSE << >>

\* C19: on a scheduler whose RAs have unique names, in every state from its
\* construction to the end of schedule_greedy, for every RA: weekly is the
\* length of its slots list and the sum of its 5 daily counters; daily[d] is
\* the number of its slots on day d; and its name occurs under a key of
\* schedule exactly as often as the key occurs in its slots list, which is
\* at most once.
C19_CountersAgree ==
    (Started /\ UniqueIds) =>
        \A j \in 1 .. Len(ras) :
            /\ Stats(j).weekly = Len(Stats(j).slots)
            /\ Stats(j).weekly = SumOver(Stats(j).daily, Days)
            /\ \A d \in Days :
                  Stats(j).daily[d] =
                      Cardinality({ k \in 1 .. Len(Stats(j).slots) :
                                      Stats(j).slots[k][1] = d })
            /\ \A key \in Days \X Slots :
                  /\ Occurrences(NamesAt(key), ras[j].name) =
                        Occurrences(Stats(j).slots, key)
                  /\ Occurrences(Stats(j).slots, key) <= 1
            /\ \A k \in 1 .. Len(Stats(j).slots) :
                  Stats(j).slots[k] \in Days \X Slots

\* C19 witness: between the two assign calls of a slot, on a scheduler with
\* unique names, the RA just assigned has 2 slots on the day.
C19_Witness ==
    /\ pc = "assign1"
    /\ UniqueIds
    /\ Len(NamesAt(Key)) = 1
    /\ Stats(available[1]).daily[Key[1]] = 2

\* C20: schedule_greedy never divides by zero, whatever the weekly caps, 0
\* and negative ones included: on a fresh scheduler Step 1 raises no
\* ZeroDivisionError, so the only error of the program is an IndexError; an
\* RA returned by get_available_ras has a cap of at least 1; and an RA with a
\* cap of 0 or less is in no recomputed list, has no slot and is named under
\* no key of schedule.
C20_NoDivisionByZero ==
    /\ (pc = "ready" /\ ~ scan_raises_IndexError) => ~ scan_raises_ZeroDivision
    /\ pc = "error" => (Len(args) > Len(ras) \/ scan_raises_IndexError)
    /\ (Started /\ ~ scan_raises_IndexError) =>
          \A day \in Days, slot \in Slots :
              LET av == get_available_ras(day, slot)
              IN  \A k \in 1 .. Len(av) : ras[av[k]].max_slots_per_week >= 1
    /\ Started =>
          /\ \A k \in 1 .. Len(available) : ras[available[k]].max_slots_per_week >= 1
          /\ \A k \in 1 .. Len(slots) : slots[k][3][2] > 0 /\ slots[k][3][1] > 0
          /\ \A j \in 1 .. Len(ras) :
                (UniqueIds /\ ras[j].max_slots_per_week <= 0) =>
                    /\ Stats(j).weekly = 0 /\ Stats(j).slots = << >>
                    /\ \A key \in DOMAIN schedule :
                          Occurrences(schedule[key], ras[j].name) = 0

\* C20 witness: schedule_greedy has returned on a scheduler with an RA of cap
\* 0 and an RA of cap 1 or more that share an available cell.
C20_Witness ==
    /\ pc = "done"
    /\ \E j, k \in 1 .. Len(ras) :
          /\ ras[j].max_slots_per_week = 0
          /\ ras[k].max_slots_per_week >= 1
          /\ \E day \in Days, slot \in Slots : Avail(j, day, slot) /\ Avail(k, day, slot)

====
